---- MODULE Spec2Model ----
\* Year-over-year item sales reconciliation (variance.py): the loader
\* load_and_compare_data, its two cleaning helpers and the module top level
\* that unpacks its result and renders the three tables.
\*
\* Strings the code inspects character by character (item codes, sales cells)
\* are sequences of one-character strings; item names and categories, which the
\* code only copies and compares, are plain strings.  A numeric cell of a sheet
\* is written as its decimal text.  Amounts are exact fixed-point numbers, an
\* integer counting units of 1/Scale, so float rounding is not modelled.  A
\* result table is the set of its rows: the order groupby gives them (sorted by
\* group key) is not modelled.  The pandas behaviour taken is that of the 2.x
\* line the code is written for: astype(str) turns a missing value into the
\* text "nan", and fillna(..., inplace=True) on a selected column updates the
\* frame.  st.cache_data is left out: one run of the script is modelled.
EXTENDS Integers, Sequences, FiniteSets, TLC

\* ---------------------------------------------------------------- bounds
MaxRows == 3        \* rows of the two input sheets together
MaxCodeLen == 3     \* characters of an item-code cell (key-cleaning runs)
MaxSalesLen == 3    \* characters of a sales cell (sales-cleaning runs)

\* ---------------------------------------------------------------- values
\* A missing cell (NaN / None) of a character-sequence column.
NULL == <<"<NA>">>
\* A missing cell of a plain-string column (Item_Name, Category).
NA == "<NA>"
\* The placeholder in a row for a column the sheet does not have.
Absent == "<absent>"
AbsentCell == <<"<absent>">>
\* pandas' NaN as the result of a failed numeric parse: the empty tuple; a
\* parsed number n is the one-element tuple <<n>>.
NaN == <<>>
\* Python's None and a DataFrame, as the values of the top-level table names.
None == [kind |-> "None"]
DataFrame(rows) == [kind |-> "DataFrame", rows |-> rows]

RECURSIVE Pow10(_)
Pow10(n) == IF n = 0 THEN 1 ELSE 10 * Pow10(n - 1)
\* Fixed-point unit: a sales cell of MaxSalesLen characters has fewer than
\* MaxSalesLen decimals.
Scale == Pow10(MaxSalesLen - 1)

\* ---------------------------------------------------------------- characters
LowerLetters == <<"a","b","c","d","e","f","g","h","i","j","k","l","m",
                  "n","o","p","q","r","s","t","u","v","w","x","y","z">>
UpperLetters == <<"A","B","C","D","E","F","G","H","I","J","K","L","M",
                  "N","O","P","Q","R","S","T","U","V","W","X","Y","Z">>
DigitChars == <<"0","1","2","3","4","5","6","7","8","9">>
Digits == {DigitChars[i] : i \in 1..10}
DigitVal(c) == (CHOOSE i \in 1..10 : DigitChars[i] = c) - 1
Whitespace == {" ", "\t", "\n", "\r"}

\* str.upper() on one character.
UpperChar(c) ==
    IF \E i \in 1..26 : LowerLetters[i] = c
    THEN UpperLetters[CHOOSE i \in 1..26 : LowerLetters[i] = c]
    ELSE c
\* str.upper()
StrUpper(s) == [i \in 1..Len(s) |-> UpperChar(s[i])]

\* str.strip(): leading and trailing whitespace removed.
RECURSIVE LStrip(_)
LStrip(s) == IF s # <<>> /\ Head(s) \in Whitespace THEN LStrip(Tail(s)) ELSE s
RECURSIVE RStrip(_)
RStrip(s) ==
    IF s # <<>> /\ s[Len(s)] \in Whitespace THEN RStrip(SubSeq(s, 1, Len(s) - 1)) ELSE s
StrStrip(s) == RStrip(LStrip(s))

\* str.replace(r'[^...]', '', regex=True): only the characters of keep stay.
KeepOnly(s, keep) == SelectSeq(s, LAMBDA c : c \in keep)

\* astype(str) on one cell: a missing cell becomes the text "nan".
AsTypeStr(cell) == IF cell = NULL THEN <<"n", "a", "n">> ELSE cell

\* ---------------------------------------------------------------- key cleaning
\* The character class [A-Z0-9] of the regular expression [^A-Z0-9].
AZ09 == {UpperLetters[i] : i \in 1..26} \cup Digits

\* A bug variant of clean_item_code: the upper-casing step left out.
clean_item_code_NoUpper(cell) == KeepOnly(StrStrip(AsTypeStr(cell)), AZ09)

\* clean_item_code on one cell of the series.
clean_item_code(cell) == KeepOnly(StrUpper(StrStrip(AsTypeStr(cell))), AZ09)

\* ---------------------------------------------------------------- numbers
IsDigitSeq(s) == \A i \in 1..Len(s) : s[i] \in Digits
RECURSIVE DigitsVal(_)
DigitsVal(s) ==
    IF s = <<>> THEN 0
    ELSE DigitsVal(SubSeq(s, 1, Len(s) - 1)) * 10 + DigitVal(s[Len(s)])

\* The float parser behind pd.to_numeric on an unsigned text: digits with at
\* most one decimal point and at least one digit; anything else fails.
ParseUnsigned(s) ==
    LET dots == {i \in 1..Len(s) : s[i] = "."} IN
    IF Cardinality(dots) > 1 THEN NaN
    ELSE IF dots = {} THEN
        IF s # <<>> /\ IsDigitSeq(s) THEN <<DigitsVal(s) * Scale>> ELSE NaN
    ELSE
        LET d == CHOOSE i \in dots : TRUE
            ip == SubSeq(s, 1, d - 1)
            fp == SubSeq(s, d + 1, Len(s))
        IN  IF IsDigitSeq(ip) /\ IsDigitSeq(fp) /\ (ip # <<>> \/ fp # <<>>)
            THEN <<DigitsVal(ip) * Scale + (DigitsVal(fp) * Scale) \div Pow10(Len(fp))>>
            ELSE NaN

\* pd.to_numeric(..., errors='coerce') on one text cell: surrounding whitespace
\* skipped, an optional sign, then an unsigned number.
ParseNumber(text) ==
    LET s == StrStrip(text) IN
    IF s # <<>> /\ Head(s) \in {"-", "+"}
    THEN LET u == ParseUnsigned(Tail(s)) IN
         IF u = NaN THEN NaN
         ELSE IF Head(s) = "-" THEN <<0 - u[1]>> ELSE u
    ELSE ParseUnsigned(s)

\* .fillna(0).astype(float)
FillNa0(x) == IF x = NaN THEN 0 ELSE x[1]

\* The character class [\d\.\-] of the regular expression [^\d\.\-].
SalesChars == Digits \cup {".", "-"}

\* A bug variant of clean_sales_column: the minus sign is stripped with the
\* formatting characters (the class [^\d\.] instead of [^\d\.\-]).
clean_sales_column_NoMinus(cell) ==
    FillNa0(ParseNumber(KeepOnly(StrStrip(AsTypeStr(cell)), Digits \cup {"."})))

\* clean_sales_column on one cell of the series.
clean_sales_column(cell) ==
    FillNa0(ParseNumber(KeepOnly(StrStrip(AsTypeStr(cell)), SalesChars)))

\* pd.to_numeric(cell, errors='coerce') on one cell of the Qty Sold column (a
\* numeric cell is written as its decimal text).
ToNumeric(cell) == IF cell = NULL THEN NaN ELSE ParseNumber(cell)

\* ---------------------------------------------------------------- input sheets
\* Column names of a sheet as read_excel returns them.
SheetCols == {"Item Code", "Items", "Qty Sold", "Total Sales", "Category"}
Layouts2024 == {SheetCols, SheetCols \ {"Category"}, SheetCols \ {"Qty Sold"}}
Layouts2025 == Layouts2024 \cup {(SheetCols \ {"Category"}) \cup {"Category4"}}

\* The rows a sheet may hold.  Rows 1 and 2 spell one item code in two ways
\* and differ in name and category; rows 3 and 4 share a code, row 3 with no
\* name, category or quantity and no sales; row 5's code has no letter or
\* digit; row 6 has no item code and a negative amount.
RawRows == {
    [Item_Code |-> <<"a">>, Item_Name |-> "N1", Category |-> "C1",
     Total_Sales |-> <<"1", "0", "0">>, Qty_Sold |-> <<"1">>],
    [Item_Code |-> <<" ", "A", "-">>, Item_Name |-> "N2", Category |-> "C2",
     Total_Sales |-> <<"1", "5", "0">>, Qty_Sold |-> <<"2">>],
    [Item_Code |-> <<"b">>, Item_Name |-> NA, Category |-> NA,
     Total_Sales |-> <<"0">>, Qty_Sold |-> NULL],
    [Item_Code |-> <<"b">>, Item_Name |-> "N1", Category |-> "C1",
     Total_Sales |-> <<"5", "0">>, Qty_Sold |-> <<"x">>],
    [Item_Code |-> <<"-">>, Item_Name |-> "N1", Category |-> "C1",
     Total_Sales |-> <<"x", "5">>, Qty_Sold |-> <<"1">>],
    [Item_Code |-> NULL, Item_Name |-> "N2", Category |-> "C1",
     Total_Sales |-> <<"-", "5", "0">>, Qty_Sold |-> <<"-", "1">>] }

SeqsUpTo(S, n) == UNION {[1..k -> S] : k \in 0..n}

\* A sheet with the given columns: a column the sheet lacks has no cells.
Sheet(cols, rows) ==
    [cols |-> cols,
     rows |-> [i \in 1..Len(rows) |->
        [rows[i] EXCEPT
            !.Category = IF {"Category", "Category4"} \cap cols = {} THEN Absent ELSE @,
            !.Qty_Sold = IF "Qty Sold" \in cols THEN @ ELSE AbsentCell]]]

\* df.rename(columns={...}) of lines 57-63 and 76-82.
RenameCol(c) ==
    CASE c = "Item Code" -> "Item_Code"
      [] c = "Items" -> "Item_Name"
      [] c = "Qty Sold" -> "Qty_Sold"
      [] c = "Total Sales" -> "Total_Sales"
      [] OTHER -> c
Rename(df) == [df EXCEPT !.cols = {RenameCol(c) : c \in df.cols}]

\* Lines 64-65: a 2024 sheet without a Category column gets one.
AddCategory2024(df) ==
    IF "Category" \in df.cols THEN df
    ELSE [cols |-> df.cols \cup {"Category"},
          rows |-> [i \in 1..Len(df.rows) |->
                      [df.rows[i] EXCEPT !.Category = "Uncategorized (2024 Missing)"]]]

\* Lines 83-84: a 2025 sheet whose category column is named Category4.
RenameCategory4(df) ==
    IF "Category4" \in df.cols /\ "Category" \notin df.cols
    THEN [df EXCEPT !.cols = (df.cols \ {"Category4"}) \cup {"Category"}]
    ELSE df

\* Lines 56-65: the 2024 sheet as loaded.
Loaded2024(sheet) == AddCategory2024(Rename(sheet))
\* Lines 75-84: the 2025 sheet as loaded.
Loaded2025(sheet) == RenameCategory4(Rename(sheet))

\* ---------------------------------------------------------------- cleaning (lines 90-114)
\* df.dropna(subset=['Item_Code']): rows whose Item_Code is missing go.
DropNaCodes(rows) == SelectSeq(rows, LAMBDA r : r.Item_Code # NULL)

\* Lines 93-114 on one frame: the key cleaned and rows without key dropped, the
\* sales and quantity columns (when the frame has them) made numeric, missing
\* names and categories filled.
CleanFrame(df) ==
    LET keyed == [i \in 1..Len(df.rows) |->
                    [df.rows[i] EXCEPT !.Item_Code = clean_item_code(@)]]
        kept == DropNaCodes(keyed)
    IN  [cols |-> df.cols,
         rows |-> [i \in 1..Len(kept) |->
            [kept[i] EXCEPT
                !.Total_Sales = IF "Total_Sales" \in df.cols
                                THEN clean_sales_column(@) ELSE @,
                !.Qty_Sold = IF "Qty_Sold" \in df.cols
                             THEN FillNa0(ToNumeric(@)) ELSE @,
                !.Item_Name = IF @ = NA THEN "Unknown Item" ELSE @,
                !.Category = IF @ = NA THEN "Uncategorized (Missing)" ELSE @]]]

\* The column whose lookup raises KeyError in lines 93-172, "" when none does:
\* the frames are indexed by name without a check.
MissingColumn(d24, d25) ==
    IF "Item_Code" \notin d24.cols \/ "Item_Code" \notin d25.cols THEN "Item_Code"
    ELSE IF "Item_Name" \notin d24.cols \/ "Item_Name" \notin d25.cols THEN "Item_Name"
    ELSE IF "Category" \notin d24.cols \/ "Category" \notin d25.cols THEN "Category"
    ELSE IF "Total_Sales" \notin d24.cols \/ "Total_Sales" \notin d25.cols THEN "Total_Sales"
    ELSE IF "Qty_Sold" \notin d24.cols \/ "Qty_Sold" \notin d25.cols THEN "Qty_Sold"
    ELSE ""

\* ---------------------------------------------------------------- set comparison (lines 117-124)
\* set(df['Item_Code'].unique())
Codes(df) == {df.rows[i].Item_Code : i \in 1..Len(df.rows)}

\* A bug variant of LostCodes: every 2024 code counts as lost.
LostCodes_All(c24, c25) == c24

LostCodes(c24, c25) == c24 \ c25
NewCodes(c24, c25) == c25 \ c24
RetainedCodes(c24, c25) == c24 \cap c25

\* ---------------------------------------------------------------- aggregation (lines 126-172)
\* df[df['Item_Code'].isin(codes)]
IsIn(rows, codes) == SelectSeq(rows, LAMBDA r : r.Item_Code \in codes)

\* A bug variant of SumOf: the group's first value instead of its sum.
SumOf_First(rows, field) == IF rows = <<>> THEN 0 ELSE rows[1][field]

\* agg 'sum': the values of a column added up in row order.
RECURSIVE SumOf(_, _)
SumOf(rows, field) ==
    IF rows = <<>> THEN 0
    ELSE SumOf(SubSeq(rows, 1, Len(rows) - 1), field) + rows[Len(rows)][field]

\* The rows of one group of groupby('Item_Code'), in frame order.
Group(rows, code) == SelectSeq(rows, LAMBDA r : r.Item_Code = code)

\* agg 'first' and drop_duplicates(subset=['Item_Code']): the value of the
\* first row of the code.
FirstOf(rows, code, field) == Group(rows, code)[1][field]

\* Lines 127-137: the Lost table, one row per group of the filtered 2024 rows,
\* its category merged in from the first 2024 row of the code.
LostTable(d24, lost_codes) ==
    LET sel == IsIn(d24.rows, lost_codes) IN
    { [Item_Code |-> k,
       Item_Name |-> FirstOf(sel, k, "Item_Name"),
       Total_Sales |-> SumOf(Group(sel, k), "Total_Sales"),
       Total_Qty |-> SumOf(Group(sel, k), "Qty_Sold"),
       Category |-> FirstOf(d24.rows, k, "Category")]
      : k \in {sel[i].Item_Code : i \in 1..Len(sel)} }

\* Lines 141-145: the New table, one row per group of
\* groupby(['Item_Code', 'Item_Name', 'Category']) of the filtered 2025 rows.
NewTable(d25, new_codes) ==
    LET sel == IsIn(d25.rows, new_codes)
        grp(g) == SelectSeq(sel, LAMBDA r :
                    <<r.Item_Code, r.Item_Name, r.Category>> = g)
    IN  { [Item_Code |-> g[1], Item_Name |-> g[2], Category |-> g[3],
           Total_Sales |-> SumOf(grp(g), "Total_Sales"),
           Total_Qty |-> SumOf(grp(g), "Qty_Sold")]
          : g \in {<<sel[i].Item_Code, sel[i].Item_Name, sel[i].Category>>
                      : i \in 1..Len(sel)} }

\* A percentage as an exact fraction num/den in lowest terms, den > 0.
RECURSIVE GCD(_, _)
GCD(x, y) == IF y = 0 THEN x ELSE GCD(y, x % y)
Abs(x) == IF x < 0 THEN 0 - x ELSE x
Frac(n, d) == [num |-> n \div GCD(Abs(n), d), den |-> d \div GCD(Abs(n), d)]

\* A bug variant of SalesChangePct: the naive (change / previous) * 100, whose
\* quotient by a zero baseline is no number (written as the fraction 0/0).
SalesChangePct_Naive(s24, s25) ==
    IF s24 = 0 THEN [num |-> 0, den |-> 0]
    ELSE IF s24 > 0 THEN Frac((s25 - s24) * 100, s24)
    ELSE Frac((s24 - s25) * 100, 0 - s24)

\* Lines 176-180: np.where(Total_Sales_2024 > 0, change / Total_Sales_2024 * 100,
\* np.where(Total_Sales_2025 > 0, 100.0, 0.0)).
SalesChangePct(s24, s25) ==
    IF s24 > 0 THEN Frac((s25 - s24) * 100, s24)
    ELSE IF s25 > 0 THEN Frac(100, 1)
    ELSE Frac(0, 1)

\* Lines 150-180: the Retained table: the per-code sums of both frames merged
\* on the code (inner), the 2025 category and name, and the two changes.
RetainedTable(d24, d25, retained_codes) ==
    LET sel24 == IsIn(d24.rows, retained_codes)
        sel25 == IsIn(d25.rows, retained_codes)
        keys24 == {sel24[i].Item_Code : i \in 1..Len(sel24)}
        keys25 == {sel25[i].Item_Code : i \in 1..Len(sel25)}
        row(k) ==
            LET s24 == SumOf(Group(sel24, k), "Total_Sales")
                s25 == SumOf(Group(sel25, k), "Total_Sales")
            IN  [Item_Code |-> k,
                 Total_Sales_2024 |-> s24,
                 Total_Qty_2024 |-> SumOf(Group(sel24, k), "Qty_Sold"),
                 Total_Sales_2025 |-> s25,
                 Total_Qty_2025 |-> SumOf(Group(sel25, k), "Qty_Sold"),
                 Category |-> FirstOf(sel25, k, "Category"),
                 Item_Name |-> FirstOf(d25.rows, k, "Item_Name"),
                 Sales_Change_AED |-> s25 - s24,
                 Sales_Change_Pct |-> SalesChangePct(s24, s25)]
    IN  {row(k) : k \in keys24 \cap keys25}

\* Lines 117-182 on the two cleaned frames: the key sets and the three tables
\* load_and_compare_data returns.
KeySets(d24, d25) ==
    [codes_2024 |-> Codes(d24), codes_2025 |-> Codes(d25),
     lost_codes |-> LostCodes(Codes(d24), Codes(d25)),
     new_codes |-> NewCodes(Codes(d24), Codes(d25)),
     retained_codes |-> RetainedCodes(Codes(d24), Codes(d25))]
Tables(d24, d25) ==
    LET c24 == Codes(d24)
        c25 == Codes(d25)
    IN  << DataFrame(LostTable(d24, LostCodes(c24, c25))),
           DataFrame(NewTable(d25, NewCodes(c24, c25))),
           DataFrame(RetainedTable(d24, d25, RetainedCodes(c24, c25))) >>

\* ---------------------------------------------------------------- state
VARIABLES
    pc,             \* where the script run stands
    io,             \* the two source files: pending, ok, missing or unreadable
    sheet_2024,     \* what read_excel returned for each file
    sheet_2025,
    df_2024,        \* the frames of load_and_compare_data
    df_2025,
    st_errors,      \* the st.error messages shown, in order
    codes,          \* codes_2024, codes_2025, lost_codes, new_codes, retained_codes
    ret,            \* the tuple load_and_compare_data returned
    exc,            \* the uncaught exception that ended the run, if any
    df_lost,        \* the three names of the module top level
    df_new,
    df_retained,
    shown,          \* the tables st.dataframe rendered
    cell,           \* the cell a cleaning helper is applied to
    code_out,       \* clean_item_code(cell), and of its result, and of a respelling
    sales_out,      \* clean_sales_column(cell)
    qty_out         \* the quantity coercion of cell

vars == <<pc, io, sheet_2024, sheet_2025, df_2024, df_2025, st_errors, codes, ret,
          exc, df_lost, df_new, df_retained, shown, cell, code_out, sales_out, qty_out>>

pipeVars == <<io, sheet_2024, sheet_2025, df_2024, df_2025, st_errors, codes, ret,
              exc, df_lost, df_new, df_retained, shown>>
helperVars == <<cell, code_out, sales_out, qty_out>>

Unset == <<>>
NoFrame == [cols |-> {}, rows |-> <<>>]
NoCodes == [codes_2024 |-> {}, codes_2025 |-> {}, lost_codes |-> {},
            new_codes |-> {}, retained_codes |-> {}]
NoException == [type |-> "", key |-> ""]

PipeStart ==
    /\ io = [y2024 |-> "pending", y2025 |-> "pending"]
    /\ sheet_2024 = NoFrame /\ sheet_2025 = NoFrame
    /\ df_2024 = NoFrame /\ df_2025 = NoFrame
    /\ st_errors = <<>>
    /\ codes = NoCodes
    /\ ret = <<>>
    /\ exc = NoException
    /\ df_lost = None /\ df_new = None /\ df_retained = None
    /\ shown = {}
HelperStart ==
    /\ code_out = [once |-> Unset, twice |-> Unset, respelled |-> Unset]
    /\ sales_out = Unset
    /\ qty_out = Unset

\* The script starts: line 185 calls load_and_compare_data.
Init == pc = "load_2024" /\ PipeStart /\ HelperStart /\ cell = NULL

\* ---------------------------------------------------------------- load_and_compare_data
\* st.error(...) followed by return None, None.
ErrorReturn(period, what) ==
    /\ st_errors' = Append(st_errors, [period |-> period, what |-> what])
    /\ ret' = <<None, None>>
    /\ pc' = "returned"

\* A bug variant of Load2025NotFound: the message copied from the 2024 branch.
Load2025NotFound_WrongPeriod ==
    /\ pc = "load_2025"
    /\ io' = [io EXCEPT !.y2025 = "missing"]
    /\ ErrorReturn("2024", "not found")
    /\ UNCHANGED <<sheet_2024, sheet_2025, df_2024, df_2025, codes, exc,
                   df_lost, df_new, df_retained, shown, helperVars>>

\* Lines 52-54: the 2024 file does not exist.
Load2024NotFound ==
    /\ pc = "load_2024"
    /\ io' = [io EXCEPT !.y2024 = "missing"]
    /\ ErrorReturn("2024", "not found")
    /\ UNCHANGED <<sheet_2024, sheet_2025, df_2024, df_2025, codes, exc,
                   df_lost, df_new, df_retained, shown, helperVars>>

\* Lines 55-68: reading the 2024 file raises.
Load2024ReadError ==
    /\ pc = "load_2024"
    /\ io' = [io EXCEPT !.y2024 = "unreadable"]
    /\ ErrorReturn("2024", "read error")
    /\ UNCHANGED <<sheet_2024, sheet_2025, df_2024, df_2025, codes, exc,
                   df_lost, df_new, df_retained, shown, helperVars>>

\* Lines 55-65: the 2024 file is read, its columns renamed, a Category column
\* added when it has none.
Load2024 ==
    /\ pc = "load_2024"
    /\ \E cols \in Layouts2024, rows \in SeqsUpTo(RawRows, MaxRows) :
          /\ sheet_2024' = Sheet(cols, rows)
          /\ df_2024' = Loaded2024(Sheet(cols, rows))
    /\ io' = [io EXCEPT !.y2024 = "ok"]
    /\ pc' = "load_2025"
    /\ UNCHANGED <<sheet_2025, df_2025, st_errors, codes, ret, exc,
                   df_lost, df_new, df_retained, shown, helperVars>>

\* Lines 71-73: the 2025 file does not exist.
Load2025NotFound ==
    /\ pc = "load_2025"
    /\ io' = [io EXCEPT !.y2025 = "missing"]
    /\ ErrorReturn("2025", "not found")
    /\ UNCHANGED <<sheet_2024, sheet_2025, df_2024, df_2025, codes, exc,
                   df_lost, df_new, df_retained, shown, helperVars>>

\* Lines 74-88: reading the 2025 file raises.
Load2025ReadError ==
    /\ pc = "load_2025"
    /\ io' = [io EXCEPT !.y2025 = "unreadable"]
    /\ ErrorReturn("2025", "read error")
    /\ UNCHANGED <<sheet_2024, sheet_2025, df_2024, df_2025, codes, exc,
                   df_lost, df_new, df_retained, shown, helperVars>>

\* Lines 74-84: the 2025 file is read, its columns renamed, Category4 taken
\* as Category when there is no Category.
Load2025 ==
    /\ pc = "load_2025"
    /\ \E cols \in Layouts2025,
          rows \in SeqsUpTo(RawRows, MaxRows - Len(sheet_2024.rows)) :
          /\ sheet_2025' = Sheet(cols, rows)
          /\ df_2025' = Loaded2025(Sheet(cols, rows))
    /\ io' = [io EXCEPT !.y2025 = "ok"]
    /\ pc' = "compare"
    /\ UNCHANGED <<sheet_2024, df_2024, st_errors, codes, ret, exc,
                   df_lost, df_new, df_retained, shown, helperVars>>

\* Lines 90-172 when a frame lacks a column they index: KeyError, uncaught.
CompareKeyError ==
    /\ pc = "compare"
    /\ MissingColumn(df_2024, df_2025) # ""
    /\ exc' = [type |-> "KeyError", key |-> MissingColumn(df_2024, df_2025)]
    /\ pc' = "crashed"
    /\ UNCHANGED <<io, sheet_2024, sheet_2025, df_2024, df_2025, st_errors, codes,
                   ret, df_lost, df_new, df_retained, shown, helperVars>>

\* Lines 90-182: cleaning, set comparison, aggregation, deltas, return of the
\* three tables.
Compare ==
    /\ pc = "compare"
    /\ MissingColumn(df_2024, df_2025) = ""
    /\ LET d24 == CleanFrame(df_2024)
           d25 == CleanFrame(df_2025)
       IN  /\ df_2024' = d24
           /\ df_2025' = d25
           /\ codes' = KeySets(d24, d25)
           /\ ret' = Tables(d24, d25)
    /\ pc' = "returned"
    /\ UNCHANGED <<io, sheet_2024, sheet_2025, st_errors, exc,
                   df_lost, df_new, df_retained, shown, helperVars>>

\* ---------------------------------------------------------------- module top level
\* Lines 185-188: the returned tuple is unpacked into three names (ValueError,
\* uncaught, when it has two values), and the run stops when df_lost is None.
\* Every error return has two values, so the st.stop() of line 188 is never
\* reached: a failed load ends the run with the ValueError.
Unpack ==
    /\ pc = "returned"
    /\ IF Len(ret) = 3
       THEN /\ df_lost' = ret[1] /\ df_new' = ret[2] /\ df_retained' = ret[3]
            /\ pc' = IF ret[1].kind = "None" THEN "stopped" ELSE "render"
            /\ exc' = exc
       ELSE /\ exc' = [type |-> "ValueError", key |-> ""]
            /\ pc' = "crashed"
            /\ UNCHANGED <<df_lost, df_new, df_retained>>
    /\ UNCHANGED <<io, sheet_2024, sheet_2025, df_2024, df_2025, st_errors, codes,
                   ret, shown, helperVars>>

\* Lines 197-199: the categories seen in the three tables.
AllCategories ==
    {r.Category : r \in df_new.rows \cup df_retained.rows \cup df_lost.rows}

\* Lines 201-346: a category is selected (all of them by default), the three
\* tables are filtered by it and each non-empty one is rendered.
Render ==
    /\ pc = "render"
    /\ \E selected_category \in {"-- ALL --"} \cup AllCategories :
          LET category_filter_list ==
                  IF selected_category = "-- ALL --" THEN AllCategories
                  ELSE {selected_category}
              filtered(t) == {r \in t.rows : r.Category \in category_filter_list}
          IN  shown' = { tab \in { [tab |-> "lost", rows |-> filtered(df_lost)],
                                   [tab |-> "new", rows |-> filtered(df_new)],
                                   [tab |-> "retained", rows |-> filtered(df_retained)] }
                            : tab.rows # {} }
    /\ pc' = "done"
    /\ UNCHANGED <<io, sheet_2024, sheet_2025, df_2024, df_2025, st_errors, codes,
                   ret, exc, df_lost, df_new, df_retained, helperVars>>

Next ==
    \/ Load2024NotFound
    \/ Load2024ReadError
    \/ Load2024
    \/ Load2025NotFound
    \/ Load2025ReadError
    \/ Load2025
    \/ CompareKeyError
    \/ Compare
    \/ Unpack
    \/ Render

Spec == Init /\ [][Next]_vars

\* ---------------------------------------------------------------- clean_item_code alone
\* The characters item-code cells are drawn from: a lower-case and an
\* upper-case letter, a digit, punctuation and whitespace.
CodeAlphabet == {"a", "B", "1", "-", " "}
CodeCells == SeqsUpTo(CodeAlphabet, MaxCodeLen) \cup {NULL}

\* str.lower(), for respelling a code.
LowerChar(c) ==
    IF \E i \in 1..26 : UpperLetters[i] = c
    THEN LowerLetters[CHOOSE i \in 1..26 : UpperLetters[i] = c]
    ELSE c
StrLower(s) == [i \in 1..Len(s) |-> LowerChar(s[i])]

\* Other spellings of a code: another case, whitespace around it, punctuation
\* or whitespace put in anywhere.
Respellings(s) ==
    {StrUpper(s), StrLower(s), <<" ">> \o s \o <<" ">>, <<"\t">> \o s}
    \cup {SubSeq(s, 1, i) \o <<p>> \o SubSeq(s, i + 1, Len(s))
            : i \in 0..Len(s), p \in {"-", " ", "/", "."}}

InitKey == pc = "key" /\ PipeStart /\ HelperStart /\ cell \in CodeCells

\* clean_item_code applied to the cell.
CleanCode ==
    /\ pc = "key"
    /\ code_out.once = Unset
    /\ code_out' = [code_out EXCEPT !.once = <<clean_item_code(cell)>>]
    /\ UNCHANGED <<pc, pipeVars, cell, sales_out, qty_out>>

\* clean_item_code applied to its own result.
CleanCodeAgain ==
    /\ pc = "key"
    /\ code_out.once # Unset /\ code_out.twice = Unset
    /\ code_out' = [code_out EXCEPT !.twice = <<clean_item_code(code_out.once[1])>>]
    /\ UNCHANGED <<pc, pipeVars, cell, sales_out, qty_out>>

\* clean_item_code applied to another spelling of the cell.
CleanRespelled ==
    /\ pc = "key"
    /\ cell # NULL
    /\ code_out.respelled = Unset
    /\ \E t \in Respellings(cell) :
          code_out' = [code_out EXCEPT !.respelled = <<clean_item_code(t)>>]
    /\ UNCHANGED <<pc, pipeVars, cell, sales_out, qty_out>>

NextKey == CleanCode \/ CleanCodeAgain \/ CleanRespelled

SpecKey == InitKey /\ [][NextKey]_vars

\* ---------------------------------------------------------------- clean_sales_column alone
\* The characters sales and quantity cells are drawn from: digits, the decimal
\* point, the minus sign, and "x" and "," for the characters that are none of
\* these (letters, currency symbols, separators).
SalesAlphabet == {"0", "5", ".", "-", "x", ","}
SalesCells == SeqsUpTo(SalesAlphabet, MaxSalesLen) \cup {NULL}

InitSales == pc = "sales" /\ PipeStart /\ HelperStart /\ cell \in SalesCells

\* Line 103: clean_sales_column applied to the cell.
CleanSales ==
    /\ pc = "sales"
    /\ sales_out = Unset
    /\ sales_out' = <<clean_sales_column(cell)>>
    /\ UNCHANGED <<pc, pipeVars, cell, code_out, qty_out>>

\* Line 107: the quantity coercion applied to the cell.
CoerceQty ==
    /\ pc = "sales"
    /\ qty_out = Unset
    /\ qty_out' = <<FillNa0(ToNumeric(cell))>>
    /\ UNCHANGED <<pc, pipeVars, cell, code_out, sales_out>>

NextSales == CleanSales \/ CoerceQty

SpecSales == InitSales /\ [][NextSales]_vars

\* ================================================================ properties
\* load_and_compare_data has returned its three tables.
Compared == pc \in {"returned", "render", "done"} /\ Len(ret) = 3
\* The run has ended.
Ended == pc \in {"stopped", "crashed", "done"}

\* The cleaned item codes of a sheet, taken cell by cell.
CleanedCodes(sheet) ==
    {clean_item_code(sheet.rows[i].Item_Code) : i \in 1..Len(sheet.rows)}

\* C1: the key sets are lost = K_prev \ K_cur, new = K_cur \ K_prev and
\* retained = K_prev \cap K_cur; they are pairwise disjoint and together make
\* up K_prev \cup K_cur, K_prev and K_cur being the cleaned item codes of the
\* 2024 and the 2025 sheet.
C1_KeySetsPartition ==
    Compared =>
        LET K_prev == CleanedCodes(sheet_2024)
            K_cur == CleanedCodes(sheet_2025)
            lost == codes.lost_codes
            new == codes.new_codes
            retained == codes.retained_codes
        IN  /\ lost = K_prev \ K_cur
            /\ new = K_cur \ K_prev
            /\ retained = K_prev \cap K_cur
            /\ lost \cap new = {} /\ lost \cap retained = {} /\ new \cap retained = {}
            /\ lost \cup new \cup retained = K_prev \cup K_cur

\* A comparison of a 2024 sheet with two keys, one lost and one retained.
C1_Witness ==
    /\ Compared
    /\ codes.lost_codes # {}
    /\ codes.retained_codes # {}
    /\ Cardinality(codes.codes_2024) = 2

\* An item-code cell with a key that can be recovered: not missing, and with
\* a letter or digit left after cleaning.
Recoverable(c) == c # NULL /\ clean_item_code(c) # <<>>
RecoverableCodes(sheet) ==
    {clean_item_code(sheet.rows[i].Item_Code) :
        i \in {j \in 1..Len(sheet.rows) : Recoverable(sheet.rows[j].Item_Code)}}

\* C2: after key cleaning no record has an empty or missing item code: the
\* rows whose code is missing or cleans to the empty string are dropped before
\* the key sets are built, so the key sets and the three tables hold only keys
\* of rows with a recoverable code.
C2_NoEmptyOrMissingKey ==
    Compared =>
        /\ \A i \in 1..Len(df_2024.rows) : df_2024.rows[i].Item_Code # <<>>
        /\ \A i \in 1..Len(df_2025.rows) : df_2025.rows[i].Item_Code # <<>>
        /\ codes.codes_2024 = RecoverableCodes(sheet_2024)
        /\ codes.codes_2025 = RecoverableCodes(sheet_2025)
        /\ \A t \in 1..3 : \A r \in ret[t].rows :
              r.Item_Code \in RecoverableCodes(sheet_2024) \cup RecoverableCodes(sheet_2025)

\* The rows of a table with a given key.
RowsOf(table, k) == {r \in table.rows : r.Item_Code = k}

\* C3: each table has exactly one row per key of its key set (Lost per lost
\* key, New per new key, Retained per retained key) and no row for any other
\* key, also when rows of one code differ in name or category.
C3_OneRowPerKey ==
    Compared =>
        /\ \A k \in codes.lost_codes : Cardinality(RowsOf(ret[1], k)) = 1
        /\ \A k \in codes.new_codes : Cardinality(RowsOf(ret[2], k)) = 1
        /\ \A k \in codes.retained_codes : Cardinality(RowsOf(ret[3], k)) = 1
        /\ \A r \in ret[1].rows : r.Item_Code \in codes.lost_codes
        /\ \A r \in ret[2].rows : r.Item_Code \in codes.new_codes
        /\ \A r \in ret[3].rows : r.Item_Code \in codes.retained_codes

\* C4: every retained row has sales_change_abs = sales_2025 - sales_2024 and a
\* sales_change_pct that is (abs / sales_2024) * 100 when sales_2024 > 0,
\* else 100 when sales_2025 > 0, else 0, and is always a defined number;
\* (0, 50) gives 100, (0, 0) gives 0, (100, 150) gives abs 50 and 50 percent.
C4_DeltaPolicy ==
    Compared =>
        \A r \in ret[3].rows :
            LET s24 == r.Total_Sales_2024
                s25 == r.Total_Sales_2025
                pct == r.Sales_Change_Pct
            IN  /\ r.Sales_Change_AED = s25 - s24
                /\ pct.den > 0
                /\ s24 > 0 => pct.num * s24 = (s25 - s24) * 100 * pct.den
                /\ s24 <= 0 /\ s25 > 0 => pct.num = 100 * pct.den
                /\ s24 <= 0 /\ s25 <= 0 => pct.num = 0
                /\ s24 = 0 /\ s25 = 50 * Scale => pct = [num |-> 100, den |-> 1]
                /\ s24 = 0 /\ s25 = 0 => pct = [num |-> 0, den |-> 1]
                /\ s24 = 100 * Scale /\ s25 = 150 * Scale =>
                      /\ r.Sales_Change_AED = 50 * Scale
                      /\ pct = [num |-> 50, den |-> 1]

\* A retained item without sales in 2024 and sales of 50 in 2025.
C4_Witness ==
    /\ Compared
    /\ \E r \in ret[3].rows : r.Total_Sales_2024 = 0 /\ r.Total_Sales_2025 = 50 * Scale

\* C5: clean_item_code is idempotent, and insensitive to case, to whitespace
\* around the code and to punctuation: every respelling of a code cleans to
\* the same key, as do " ab-12 " and "AB12".
C5_NormalizeIdempotentInsensitive ==
    /\ code_out.twice # Unset => code_out.twice = code_out.once
    /\ code_out.once # Unset /\ code_out.respelled # Unset =>
          code_out.respelled = code_out.once
    /\ clean_item_code(<<" ", "a", "b", "-", "1", "2", " ">>)
          = clean_item_code(<<"A", "B", "1", "2">>)
    /\ clean_item_code(<<"A", "B", "1", "2">>) = <<"A", "B", "1", "2">>

\* A code that cleaning changes, cleaned once, twice and in another spelling.
C5_Witness ==
    /\ pc = "key"
    /\ code_out.twice # Unset /\ code_out.respelled # Unset
    /\ code_out.once # <<cell>>
    /\ Len(code_out.once[1]) >= 2

\* The sum of a column over a set of row numbers, in no particular order.
RECURSIVE IndexSum(_, _, _)
IndexSum(rows, I, field) ==
    IF I = {} THEN 0
    ELSE LET i == CHOOSE j \in I : TRUE
         IN  rows[i][field] + IndexSum(rows, I \ {i}, field)
KeyTotal(df, k, field) ==
    IndexSum(df.rows, {i \in 1..Len(df.rows) : df.rows[i].Item_Code = k}, field)

\* The totals a result holds for the Lost and the Retained keys.
Totals(result) ==
    << {<<r.Item_Code, r.Total_Sales, r.Total_Qty>> : r \in result[1].rows},
       {<<r.Item_Code, r.Total_Sales_2024, r.Total_Qty_2024,
          r.Total_Sales_2025, r.Total_Qty_2025>> : r \in result[3].rows} >>
RowOrders(n) == {p \in [1..n -> 1..n] : \A i, j \in 1..n : p[i] = p[j] => i = j}
Shuffled(df, p) == [df EXCEPT !.rows = [i \in 1..Len(df.rows) |-> df.rows[p[i]]]]

\* C6: for every key of the Lost and of the Retained table, total_sales and
\* total_qty are the sums of the sales values and quantities of all rows of
\* the dataset with that cleaned key, and they are the same for every order
\* of the rows of the two frames that are grouped.
C6_TotalsAreOrderIndependentSums ==
    (pc = "returned" /\ Len(ret) = 3) =>
        /\ \A r \in ret[1].rows :
              /\ r.Total_Sales = KeyTotal(df_2024, r.Item_Code, "Total_Sales")
              /\ r.Total_Qty = KeyTotal(df_2024, r.Item_Code, "Qty_Sold")
        /\ \A r \in ret[3].rows :
              /\ r.Total_Sales_2024 = KeyTotal(df_2024, r.Item_Code, "Total_Sales")
              /\ r.Total_Qty_2024 = KeyTotal(df_2024, r.Item_Code, "Qty_Sold")
              /\ r.Total_Sales_2025 = KeyTotal(df_2025, r.Item_Code, "Total_Sales")
              /\ r.Total_Qty_2025 = KeyTotal(df_2025, r.Item_Code, "Qty_Sold")
        /\ \A p \in RowOrders(Len(df_2024.rows)) :
           \A q \in RowOrders(Len(df_2025.rows)) :
              Totals(Tables(Shuffled(df_2024, p), Shuffled(df_2025, q))) = Totals(ret)

\* A lost item whose two rows of 100 and 150 add up to 250.
C6_Witness ==
    /\ pc = "returned" /\ Len(ret) = 3
    /\ \E r \in ret[1].rows : r.Total_Sales = 250 * Scale /\ r.Total_Qty = 3 * Scale

\* C7: when the 2024 or the 2025 file is not found or cannot be read, no table
\* is produced, the one error shown names the period that failed and why, and
\* the run never gets to filtering or rendering.
C7_FatalErrorsAllOrNothing ==
    LET failed == {y \in {"y2024", "y2025"} : io[y] \in {"missing", "unreadable"}} IN
    failed # {} =>
        /\ ret # <<>> /\ \A i \in 1..Len(ret) : ret[i] = None
        /\ df_lost = None /\ df_new = None /\ df_retained = None
        /\ shown = {}
        /\ pc \in {"returned", "stopped", "crashed"}
        /\ Len(st_errors) = 1
        /\ \E y \in failed :
              /\ st_errors[1].period = (IF y = "y2024" THEN "2024" ELSE "2025")
              /\ st_errors[1].what = (IF io[y] = "missing" THEN "not found" ELSE "read error")

\* A run that ended after the 2025 file was not found.
C7_Witness == io.y2024 = "ok" /\ io.y2025 = "missing" /\ Ended

\* Both files were read and the comparison was run.
BothReadAndRun == io.y2024 = "ok" /\ io.y2025 = "ok" /\ pc \notin {"load_2025", "compare"}
NoCategoryColumn(sheet) == {"Category", "Category4"} \cap sheet.cols = {}
NoQuantityColumn(sheet) == "Qty Sold" \notin sheet.cols
\* The two datasets: the sheet as read and the frame made of it.
Datasets == {<<sheet_2024, df_2024>>, <<sheet_2025, df_2025>>}

\* C8: when one sheet (the 2024 or the 2025 one) has no category column at
\* all, the comparison still completes and every record of that sheet carries
\* one sentinel category, which is not the default given to single rows
\* without category.
C8_MissingCategoryColumnGetsSentinel ==
    (/\ BothReadAndRun
     /\ Cardinality({d \in Datasets : NoCategoryColumn(d[1]) /\ d[1].rows # <<>>}) = 1
     /\ \A d \in Datasets : ~NoQuantityColumn(d[1])) =>
        /\ pc # "crashed"
        /\ \A d \in {e \in Datasets : NoCategoryColumn(e[1])} :
              \A i \in 1..Len(d[2].rows) :
                 /\ d[2].rows[i].Category \notin {Absent, NA, "Uncategorized (Missing)"}
                 /\ d[2].rows[i].Category = d[2].rows[1].Category

\* C9 as stated: after coercion the sales value and the quantity of a record
\* are >= 0, and a raw value that is not a number becomes 0.
C9_CoercedNonNegative ==
    /\ sales_out # Unset =>
          /\ sales_out[1] >= 0
          /\ ToNumeric(cell) = NaN => sales_out[1] = 0
    /\ qty_out # Unset =>
          /\ qty_out[1] >= 0
          /\ ToNumeric(cell) = NaN => qty_out[1] = 0

HasMinus(c) == c # NULL /\ \E i \in 1..Len(c) : c[i] = "-"
\* A minus sign followed by digits only.
NegativeInteger(c) ==
    c # NULL /\ Len(c) >= 2 /\ c[1] = "-" /\ IsDigitSeq(Tail(c))

\* C9 amended: after coercion the sales value and the quantity of a record are
\* numbers, negative when the raw value is a negative number; a sales value
\* that does not parse once the characters other than digits, "." and "-"
\* are stripped, and a quantity that does not parse, become 0; a value is
\* >= 0 whenever the raw value has no minus sign.
C9_CoercedNumbers ==
    /\ sales_out # Unset =>
          /\ sales_out[1] \in Int
          /\ ~HasMinus(cell) => sales_out[1] >= 0
          /\ (cell = NULL \/ ParseNumber(KeepOnly(AsTypeStr(cell), SalesChars)) = NaN)
                => sales_out[1] = 0
          /\ NegativeInteger(cell) => sales_out[1] = 0 - DigitsVal(Tail(cell)) * Scale
    /\ qty_out # Unset =>
          /\ qty_out[1] \in Int
          /\ ~HasMinus(cell) => qty_out[1] >= 0
          /\ ToNumeric(cell) = NaN => qty_out[1] = 0
          /\ NegativeInteger(cell) => qty_out[1] = 0 - DigitsVal(Tail(cell)) * Scale

\* A sales cell with a minus sign cleaned to a negative amount.
C9_Witness == pc = "sales" /\ sales_out # Unset /\ sales_out[1] < 0 /\ qty_out # Unset

\* C10: when a sheet has a sales column and no quantity column, the comparison
\* still completes and the quantity of each of its records is its sales value
\* divided by 10, so that the quantity totals are sums of these.
C10_MissingQuantityDerivedFromSales ==
    (/\ BothReadAndRun
     /\ \E d \in Datasets : NoQuantityColumn(d[1]) /\ d[1].rows # <<>>
     /\ \A d \in Datasets : "Category" \in d[2].cols /\ "Total_Sales" \in d[2].cols) =>
        /\ pc # "crashed"
        /\ \A d \in {e \in Datasets : NoQuantityColumn(e[1])} :
              \A i \in 1..Len(d[2].rows) :
                 d[2].rows[i].Qty_Sold * 10 = d[2].rows[i].Total_Sales

====
